---- MODULE Spec2Model ----
(***************************************************************************)
(* Model of index.js: a Stremio add-on that mirrors a TMDB movie catalog   *)
(* and per-movie metadata in two in-memory caches (catalogCache,           *)
(* metaCache), refreshes them from the remote API at startup and from a    *)
(* daily cron job, persists them to two JSON files and answers catalog and *)
(* meta requests from the caches.                                          *)
(*                                                                         *)
(* Node runs the program on one thread.  A step of the model is what runs  *)
(* between two suspension points (an outbound axios.get or an fs call      *)
(* that has been issued and whose completion is awaited), so every action  *)
(* below is one resumption of one async function up to its next await.     *)
(*                                                                         *)
(* Representation.  A JavaScript string that the code takes apart is a     *)
(* sequence: a title is the sequence of its characters, a release_date and *)
(* a request id are the sequences of their '-'-separated segments          *)
(* ("2021-05-01" is <<"2021","05","01">>, "" is <<"">>).  An optional      *)
(* value is a sequence of length 0 (undefined / null) or 1.                *)
(***************************************************************************)
EXTENDS Integers, Sequences, FiniteSets, TLC

\* ---------------------------------------------------------------- bounds
\* Midnights that pass while the process is observed (firings of the job).
MaxCron == 1
\* The same where only the refresh runs are observed, not the requests.
MaxCronBurst == 2
\* Entries the refresh runs in flight hold between them.
MaxResults == 2
\* The most pages the remote API reports in total_pages.
MaxTotalPages == 3
\* How many of the five GENRE_COMBINATIONS the model walks through.
NumCombinations == 2
\* Entries on one page of the discover endpoint.
MaxPageLen == 1

\* ------------------------------------------------------- program constants
\* NUM_PAGES = process.env.NUM_PAGES || 5, here with NUM_PAGES=2 in the
\* environment so that the cap and total_pages both decide the loop.
NUM_PAGES == 2

ALL_GENRE_COMBINATIONS == <<"28,12", "28,35", "28,14", "14,12", "14,35">>

GENRE_COMBINATIONS == SubSeq(ALL_GENRE_COMBINATIONS, 1, NumCombinations)

\* 24 * 60 * 60 * 1000 ms, the staleness threshold of startServer.
DAY_MS == 24 * 60 * 60 * 1000

\* Date.now() when the process starts (a midnight, in ms; any value works).
T0 == 10 * DAY_MS

\* ------------------------------------------------------------ remote data
\* Movies the discover endpoint may list.  Two share a release date, one is
\* older, one has an empty release_date and one a date Date cannot parse.
IronMan ==
    [id |-> 1, title |-> <<"I","r","o","n"," ","M","a","n">>,
     release_date |-> <<"2021","05","01">>,
     poster_path |-> <<"/iron.jpg">>, overview |-> <<"A man of iron">>]

MadMax ==
    [id |-> 2, title |-> <<"M","a","d"," ","M","a","x">>,
     release_date |-> <<"2021","05","01">>,
     poster_path |-> <<>>, overview |-> <<>>]

Amen ==
    [id |-> 3, title |-> <<"A","M","E","N">>,
     release_date |-> <<"2019","12","01">>,
     poster_path |-> <<"/amen.jpg">>, overview |-> <<"">>]

Undated ==
    [id |-> 4, title |-> <<"M","a","n">>,
     release_date |-> <<"">>,
     poster_path |-> <<>>, overview |-> <<>>]

Misdated ==
    [id |-> 5, title |-> <<"M","a","n">>,
     release_date |-> <<"0000","00","00">>,
     poster_path |-> <<>>, overview |-> <<>>]

RemoteMovies == {IronMan, MadMax, Amen, Undated, Misdated}

\* The part of them listed while the daily job is observed as well.
FewRemoteMovies == {IronMan, Amen}

\* ------------------------------------------------------- string functions
\* String.prototype.toLowerCase, on the characters that occur.
ToLowerChar(c) ==
    CASE c = "A" -> "a" [] c = "E" -> "e" [] c = "I" -> "i"
      [] c = "M" -> "m" [] c = "N" -> "n" [] c = "X" -> "x"
      [] OTHER -> c

ToLowerCase(s) == [i \in 1..Len(s) |-> ToLowerChar(s[i])]

\* String.prototype.includes: sub occurs in s at some offset.
Includes(s, sub) ==
    \E off \in 0..(Len(s) - Len(sub)) :
        \A k \in 1..Len(sub) : s[off + k] = sub[k]

\* Number(segment) for the segments of the dates that occur.
ToNumber(seg) ==
    CASE seg = "2021" -> 2021 [] seg = "2019" -> 2019 [] seg = "0000" -> 0
      [] seg = "12" -> 12 [] seg = "05" -> 5 [] seg = "01" -> 1
      [] seg = "00" -> 0 [] OTHER -> -1

\* isNaN(new Date(release_date)) is false: an ISO date YYYY-MM-DD whose
\* month and day are in range.
IsValidDate(d) ==
    /\ Len(d) = 3
    /\ ToNumber(d[1]) >= 0
    /\ ToNumber(d[2]) \in 1..12
    /\ ToNumber(d[3]) \in 1..31

\* new Date(release_date) as a number of days (defined for valid dates).
DateValue(d) == (ToNumber(d[1]) * 12 + (ToNumber(d[2]) - 1)) * 31 + ToNumber(d[3])

\* A string is truthy unless it is empty.
IsTruthyString(d) == d # <<"">>

\* String(n) for a numeric movie id: the property key metaCache[movieId]
\* uses and the suffix of `tmdb-${item.id}`.
NumberToString(n) ==
    CASE n = 1 -> "1" [] n = 2 -> "2" [] n = 3 -> "3" [] n = 4 -> "4"
      [] n = 5 -> "5" [] OTHER -> "0"

\* -------------------------------------------------- fetchMoviesForCombination
\* results.filter(movie => movie.release_date && !isNaN(new Date(...)))
IsValidResult(movie) ==
    IsTruthyString(movie.release_date) /\ IsValidDate(movie.release_date)

ValidResults(results) == SelectSeq(results, IsValidResult)

\* The loop condition without the configured cap.
MorePagesUncapped(page, totalPages) == page <= totalPages

\* The do-while condition, evaluated after page++.
MorePages(page, totalPages) == page <= NUM_PAGES /\ page <= totalPages

\* ------------------------------------------------------------- fetchMovies
\* The comparator (a, b) => new Date(b.release_date) - new Date(a.release_date).
CompareReleaseDate(a, b) == DateValue(b.release_date) - DateValue(a.release_date)

\* One insertion of a stable sort: x goes behind every element the
\* comparator does not order after it.
InsertSorted(sorted, x) ==
    LET p == Cardinality({i \in 1..Len(sorted) : CompareReleaseDate(sorted[i], x) <= 0})
    IN  SubSeq(sorted, 1, p) \o <<x>> \o SubSeq(sorted, p + 1, Len(sorted))

RECURSIVE SortStable(_)
SortStable(s) ==
    IF s = <<>> THEN <<>>
    ELSE InsertSorted(SortStable(SubSeq(s, 1, Len(s) - 1)), s[Len(s)])

\* A sort that is not stable: an insertion goes before the elements the
\* comparator calls equal.
RECURSIVE SortUnstable(_)
SortUnstable(s) ==
    IF s = <<>> THEN <<>>
    ELSE LET sorted == SortUnstable(SubSeq(s, 1, Len(s) - 1))
             x == s[Len(s)]
             p == Cardinality({i \in 1..Len(sorted) : CompareReleaseDate(sorted[i], x) < 0})
         IN  SubSeq(sorted, 1, p) \o <<x>> \o SubSeq(sorted, p + 1, Len(sorted))

\* The list without the later copies of its entries.
RECURSIVE Deduplicated(_)
Deduplicated(s) ==
    IF s = <<>> THEN <<>>
    ELSE LET front == Deduplicated(SubSeq(s, 1, Len(s) - 1))
         IN  IF \E j \in 1..Len(front) : front[j].id = s[Len(s)].id
             THEN front ELSE Append(front, s[Len(s)])

\* A sort of the deduplicated list.
SortDeduplicated(allResults) == SortStable(Deduplicated(allResults))

\* allResults.sort(comparator): Array.prototype.sort is stable.
SortByReleaseDate(allResults) == SortStable(allResults)

\* ------------------------------------------------------ fetchMovieMetadata
Undefined == <<>>

\* response.data of GET /movie/{id}.
MovieDetail(movieId) ==
    CASE movieId = 1 ->
           [error |-> Undefined, title |-> <<"Iron Man">>, overview |-> <<"A man of iron">>,
            poster_path |-> <<"/iron.jpg">>, backdrop_path |-> <<"/iron_bg.jpg">>,
            release_date |-> <<<<"2021","05","01">>>>, genres |-> <<<<"Action","Adventure">>>>,
            runtime |-> <<126>>, vote_average |-> <<725>>]
      [] movieId = 2 ->
           [error |-> Undefined, title |-> Undefined, overview |-> Undefined,
            poster_path |-> Undefined, backdrop_path |-> Undefined,
            release_date |-> Undefined, genres |-> Undefined,
            runtime |-> Undefined, vote_average |-> Undefined]
      [] OTHER ->
           [error |-> Undefined, title |-> <<"AMEN">>, overview |-> <<"">>,
            poster_path |-> <<"/amen.jpg">>, backdrop_path |-> Undefined,
            release_date |-> <<<<"2019","12","01">>>>, genres |-> <<<<>>>>,
            runtime |-> <<0>>, vote_average |-> <<0>>]

\* { error: 'Failed to fetch movie data' }
FailureMarker ==
    [error |-> <<"Failed to fetch movie data">>, title |-> Undefined, overview |-> Undefined,
     poster_path |-> Undefined, backdrop_path |-> Undefined,
     release_date |-> Undefined, genres |-> Undefined,
     runtime |-> Undefined, vote_average |-> Undefined]

\* What fetchMovieMetadata returns: the response body, or the marker when
\* axios.get throws.
FetchMovieMetadataResult(movieId, ok) ==
    IF ok THEN MovieDetail(movieId) ELSE FailureMarker

\* ---------------------------------------------------------- cache values
\* A value of catalogCache: null, or an object whose timestamp is 0 when it
\* has none (Date.now() is never 0, and !timestamp treats both alike) and
\* whose data may be missing.
CatalogObject(timestamp, hasData, data) ==
    [isNull |-> FALSE, timestamp |-> timestamp, hasData |-> hasData, data |-> data]

\* let catalogCache = {};
EmptyCatalog == CatalogObject(0, FALSE, <<>>)

NullCatalog == [isNull |-> TRUE, timestamp |-> 0, hasData |-> FALSE, data |-> <<>>]

\* The own property keys metaCache can get: String(id) of a listed movie.
MetaKeys == {NumberToString(m.id) : m \in RemoteMovies}

\* Names every object inherits from Object.prototype (some of them).
ObjectPrototypeKeys == {"constructor", "toString", "__proto__"}

\* A value of metaCache: null, or an object; entries[k] is <<>> when the
\* object has no own property k.
MetaObject(entries) == [isNull |-> FALSE, entries |-> entries]

\* let metaCache = {};
EmptyMeta == MetaObject([k \in MetaKeys |-> <<>>])

NullMeta == [isNull |-> TRUE, entries |-> [k \in MetaKeys |-> <<>>]]

\* The table rebuilt from the current entry alone.
MetaPutPurging(meta, movieId, timestamp, movieData) ==
    MetaObject([k \in MetaKeys |->
                    IF k = NumberToString(movieId)
                    THEN <<[timestamp |-> timestamp, data |-> movieData]>> ELSE <<>>])

\* metaCache[movieId] = { timestamp: Date.now(), data: movieData }
MetaPut(meta, movieId, timestamp, movieData) ==
    MetaObject([meta.entries EXCEPT ![NumberToString(movieId)] =
                    <<[timestamp |-> timestamp, data |-> movieData]>>])

HasOwn(meta, key) == key \in MetaKeys /\ meta.entries[key] # <<>>

\* Object.keys(metaCache)
KeysOf(meta) == {k \in MetaKeys : meta.entries[k] # <<>>}

\* ------------------------------------------------------------ cache files
\* A file is missing, holds text JSON.parse rejects, or holds JSON.
MissingFile(placeholder) == [kind |-> "missing", value |-> placeholder]

GarbageFile(placeholder) == [kind |-> "garbage", value |-> placeholder]

\* JSON.stringify(value): the text JSON.parse turns back into value.
Stringify(value) == [kind |-> "json", value |-> value]

\* fs.readFile followed by JSON.parse succeeds.
Readable(file) == file.kind = "json"

JsonParse(file) == file.value

\* ---------------------------------------------------------------- handlers
NoResponse == [kind |-> "none", metas |-> <<>>, meta |-> <<>>]

\* A handler that throws: the promise it returns is rejected.
ErrorResponse == [kind |-> "error", metas |-> <<>>, meta |-> <<>>]

\* args.extra && args.extra.search ? args.extra.search : ''
SearchQuery(args) ==
    IF args.search # Undefined /\ args.search[1] # <<>> THEN args.search[1] ELSE <<>>

\* The object results.map builds for one item.
Summary(item) ==
    [id |-> <<"tmdb", NumberToString(item.id)>>,
     type |-> "movie",
     name |-> item.title,
     poster |-> IF item.poster_path # Undefined /\ item.poster_path[1] # ""
                THEN <<"https://image.tmdb.org/t/p/w500", item.poster_path[1]>>
                ELSE <<>>,
     description |-> IF item.overview # Undefined /\ item.overview[1] # ""
                     THEN item.overview[1] ELSE "No description available",
     releaseInfo |-> IF IsTruthyString(item.release_date)
                     THEN item.release_date[1] ELSE "Unknown"]

\* The filter without the lowering of the query.
TitleMatchesLoweredTitleOnly(movie, searchQuery) ==
    Includes(ToLowerCase(movie.title), searchQuery)

\* movie.title.toLowerCase().includes(searchQuery.toLowerCase())
TitleMatches(movie, searchQuery) ==
    Includes(ToLowerCase(movie.title), ToLowerCase(searchQuery))

\* builder.defineCatalogHandler(async (args) => ...)
CatalogHandler(catalog, args) ==
    IF catalog.isNull THEN ErrorResponse
    ELSE
      LET searchQuery == SearchQuery(args)
          cached == IF catalog.hasData THEN catalog.data ELSE <<>>
          matches(movie) == TitleMatches(movie, searchQuery)
          results == IF searchQuery # <<>> THEN SelectSeq(cached, matches) ELSE cached
      IN  [kind |-> "metas",
           metas |-> [i \in 1..Len(results) |-> Summary(results[i])],
           meta |-> <<>>]

\* The view the meta handler builds from a stored record.
MetaView(argsId, movieData) ==
    [id |-> argsId,
     type |-> "movie",
     name |-> IF movieData.title # Undefined /\ movieData.title[1] # ""
              THEN movieData.title[1] ELSE "Unknown Title",
     poster |-> IF movieData.poster_path # Undefined /\ movieData.poster_path[1] # ""
                THEN <<"https://image.tmdb.org/t/p/w500", movieData.poster_path[1]>>
                ELSE <<>>,
     background |-> IF movieData.backdrop_path # Undefined /\ movieData.backdrop_path[1] # ""
                    THEN <<"https://image.tmdb.org/t/p/w1280", movieData.backdrop_path[1]>>
                    ELSE <<>>,
     description |-> IF movieData.overview # Undefined /\ movieData.overview[1] # ""
                     THEN movieData.overview[1] ELSE "No description available",
     releaseInfo |-> IF movieData.release_date # Undefined
                        /\ IsTruthyString(movieData.release_date[1])
                     THEN movieData.release_date[1][1] ELSE "Unknown",
     genre |-> IF movieData.genres # Undefined THEN movieData.genres[1] ELSE <<>>,
     runtime |-> IF movieData.runtime # Undefined /\ movieData.runtime[1] # 0
                 THEN <<"min", movieData.runtime[1]>> ELSE <<"Unknown">>,
     \* vote_average in hundredths; toFixed(1) rounds it to tenths
     rating |-> IF movieData.vote_average # Undefined /\ movieData.vote_average[1] # 0
                THEN <<"fixed1", (movieData.vote_average[1] + 5) \div 10>> ELSE <<"N/A">>]

\* args.id.split('-')[1], used as a property key (undefined becomes "undefined").
RequestedKey(argsId) == IF Len(argsId) >= 2 THEN argsId[2] ELSE "undefined"

\* builder.defineMetaHandler(async (args) => ...)
MetaHandler(meta, argsId) ==
    LET id == RequestedKey(argsId) IN
    IF meta.isNull THEN ErrorResponse
    ELSE IF HasOwn(meta, id) THEN
        LET movieData == meta.entries[id][1].data IN
        IF movieData.error # Undefined
        THEN [kind |-> "meta", metas |-> <<>>, meta |-> <<>>]
        ELSE [kind |-> "meta", metas |-> <<>>, meta |-> <<MetaView(argsId, movieData)>>]
    ELSE IF id \in ObjectPrototypeKeys THEN
        \* metaCache[id] is the inherited member: truthy, its .data is
        \* undefined, and reading .error of undefined throws
        ErrorResponse
    ELSE [kind |-> "meta", metas |-> <<>>, meta |-> <<>>]

\* -------------------------------------------------------------------- state
VARIABLES
    pc,            \* where startServer is: boot, loaded, refreshing, serving, crashed
    now,           \* Date.now()
    cronFired,     \* how often the scheduled job has fired
    catalogCache,  \* let catalogCache
    metaCache,     \* let metaCache
    catalogFile,   \* CATALOG_CACHE_FILE
    metaFile,      \* META_CACHE_FILE
    runs,          \* the calls of updateCatalogAndMetaCache, in the order they started
    response,      \* what the handler that has just run returned
    remote         \* the movies the discover endpoint lists (it never changes)

vars == <<pc, now, cronFired, catalogCache, metaCache, catalogFile, metaFile, runs,
          response, remote>>

\* A call of updateCatalogAndMetaCache that has issued its first page request:
\* fetchMovies is at the first combination, fetchMoviesForCombination has
\* page = 1, totalPages = 1 and an empty allResults (combResults here).
\* allResults is the list of fetchMovies in the order of fetching; the array
\* as sort leaves it is results, the list the metadata loop walks with k.
\* catalogText and metaText are the texts handed to the two writeFile calls.
NewRun ==
    [pc |-> "page", comb |-> 1, page |-> 1, totalPages |-> 1,
     combResults |-> <<>>, allResults |-> <<>>, results |-> <<>>, k |-> 0,
     catalogText |-> Stringify(EmptyCatalog), metaText |-> Stringify(EmptyMeta)]

\* A call that has returned: its locals are gone.
EndedRun(how) == [NewRun EXCEPT !.pc = how, !.comb = 0, !.page = 0, !.totalPages = 0]

InFlight(r) == r.pc \notin {"done", "failed"}

\* Files the process may find when it starts.  A saved catalog is sorted.
StartCatalogFiles ==
    { MissingFile(EmptyCatalog), GarbageFile(EmptyCatalog), Stringify(NullCatalog),
      Stringify(CatalogObject(T0 - DAY_MS - 1, TRUE, <<Amen>>)),
      Stringify(CatalogObject(T0 - DAY_MS, TRUE, <<Amen>>)),
      Stringify(CatalogObject(T0, TRUE, <<Amen>>)),
      Stringify(CatalogObject(T0, FALSE, <<>>)) }

StartMetaFiles ==
    { MissingFile(EmptyMeta), Stringify(NullMeta),
      Stringify(MetaPut(EmptyMeta, Amen.id, T0 - DAY_MS, MovieDetail(Amen.id))) }

\* The state when startServer is called.
Constructed ==
    /\ pc = "boot"
    /\ now = T0
    /\ cronFired = 0
    /\ catalogCache = EmptyCatalog
    /\ metaCache = EmptyMeta
    /\ runs = <<>>
    /\ response = NoResponse

\* The process starts on any pair of files.
InitStartup ==
    /\ Constructed
    /\ catalogFile \in StartCatalogFiles
    /\ metaFile \in StartMetaFiles
    /\ remote = RemoteMovies

\* The process starts with no files, with a stale pair or with a fresh pair.
Init ==
    /\ Constructed
    /\ \/ catalogFile = MissingFile(EmptyCatalog) /\ metaFile = MissingFile(EmptyMeta)
       \/ /\ catalogFile \in { Stringify(CatalogObject(T0 - DAY_MS - 1, TRUE, <<Amen>>)),
                                Stringify(CatalogObject(T0, TRUE, <<Amen>>)) }
          /\ metaFile = Stringify(MetaPut(EmptyMeta, Amen.id, T0 - DAY_MS,
                                           MovieDetail(Amen.id)))
    /\ remote = FewRemoteMovies

\* ------------------------------------------------------------------ startup
\* loadCache: each file is read and parsed in its own try block; a file that
\* cannot be read or parsed leaves the variable as it is.  JSON.parse of
\* "null" is assigned before the log line that follows it throws.
LoadCache ==
    /\ pc = "boot"
    /\ catalogCache' = IF Readable(catalogFile) THEN JsonParse(catalogFile) ELSE catalogCache
    /\ metaCache' = IF Readable(metaFile) THEN JsonParse(metaFile) ELSE metaCache
    /\ pc' = "loaded"
    /\ response' = NoResponse
    /\ UNCHANGED <<now, cronFired, catalogFile, metaFile, runs, remote>>

\* !catalogCache.timestamp || Date.now() - catalogCache.timestamp > 24*60*60*1000
RefreshNeeded(catalog, t) ==
    catalog.timestamp = 0 \/ t - catalog.timestamp > DAY_MS

\* startServer after loadCache: the job is scheduled, then the staleness test
\* either calls refreshCache and awaits it, or goes on to serveHTTP.  Reading
\* .timestamp of null throws out of startServer.
StartServer ==
    /\ pc = "loaded"
    /\ IF catalogCache.isNull
       THEN pc' = "crashed" /\ runs' = runs
       ELSE IF RefreshNeeded(catalogCache, now)
       THEN pc' = "refreshing" /\ runs' = Append(runs, NewRun)
       ELSE pc' = "serving" /\ runs' = runs
    /\ response' = NoResponse
    /\ UNCHANGED <<now, cronFired, catalogCache, metaCache, catalogFile, metaFile, remote>>

\* The job scheduled with '0 0 * * *' fires: midnight has come, and
\* refreshCache starts a call of updateCatalogAndMetaCache whatever the
\* earlier calls are doing.
CronFires(limit) ==
    /\ pc \in {"refreshing", "serving"}
    /\ cronFired < limit
    /\ cronFired' = cronFired + 1
    /\ now' = now + DAY_MS
    /\ runs' = Append(runs, NewRun)
    /\ response' = NoResponse
    /\ UNCHANGED <<pc, catalogCache, metaCache, catalogFile, metaFile, remote>>

\* -------------------------------------------------------------- remote API
RECURSIVE SeqsUpTo(_, _)
SeqsUpTo(S, n) ==
    IF n = 0 THEN {<<>>}
    ELSE LET shorter == SeqsUpTo(S, n - 1)
         IN  shorter \cup {Append(q, x) : q \in {t \in shorter : Len(t) = n - 1}, x \in S}

\* The results array of one page of /discover/movie.
PageResults == SeqsUpTo(remote, MaxPageLen)

\* total_pages of a response: the API reports no more pages than it lists
\* movies, and the model no more than MaxTotalPages.
TotalPagesValues ==
    0..(IF Cardinality(remote) < MaxTotalPages THEN Cardinality(remote) ELSE MaxTotalPages)

\* ------------------------------------------------------------- refresh run
\* The calling startServer resumes behind `await refreshCache()` when the
\* call it awaits returns: it is the first call, made while pc = "refreshing".
MainAfterRunEnds(i) == IF pc = "refreshing" /\ i = 1 THEN "serving" ELSE pc

\* saveCache is entered: JSON.stringify(catalogCache) is taken and the first
\* writeFile is issued.
EnterSaveCache(r, catalog) ==
    [r EXCEPT !.pc = "writeCatalog", !.k = 0, !.catalogText = Stringify(catalog)]

\* fetchMoviesForCombination has returned `returned` to fetchMovies: it is
\* appended, and either the next combination's first page is requested or the
\* list is sorted, returned, and stored as the new catalogCache, after which
\* the metadata loop requests its first movie (or, with no movie, saveCache
\* begins).
CombinationReturned(i, returned) ==
    LET r == runs[i]
        all == r.allResults \o returned
        sorted == SortByReleaseDate(all)
        newCatalog == CatalogObject(now, TRUE, sorted)
    IN  IF r.comb < Len(GENRE_COMBINATIONS)
        THEN /\ runs' = [runs EXCEPT ![i] =
                    [r EXCEPT !.comb = r.comb + 1, !.page = 1, !.totalPages = 1,
                              !.combResults = <<>>, !.allResults = all]]
             /\ catalogCache' = catalogCache
        ELSE /\ catalogCache' = newCatalog
             /\ runs' = [runs EXCEPT ![i] =
                    IF sorted = <<>>
                    THEN EnterSaveCache([r EXCEPT !.allResults = all, !.combResults = <<>>],
                                        newCatalog)
                    ELSE [r EXCEPT !.pc = "meta", !.k = 1, !.results = sorted,
                                   !.allResults = all, !.combResults = <<>>]]

\* The entries the runs in flight hold.
RECURSIVE HeldEntries(_)
HeldEntries(rs) ==
    IF rs = <<>> THEN 0
    ELSE Len(Head(rs).allResults) + Len(Head(rs).combResults) + HeldEntries(Tail(rs))

\* axios.get of a page returns: total_pages is taken, the valid results are
\* pushed, page is incremented and the loop condition decides.
PageFetched(i, results, total_pages) ==
    LET r == runs[i]
        validResults == ValidResults(results)
        gathered == r.combResults \o validResults
    IN  /\ r.pc = "page"
        /\ HeldEntries(runs) + Len(validResults) <= MaxResults
        /\ IF MorePages(r.page + 1, total_pages)
           THEN /\ runs' = [runs EXCEPT ![i] =
                       [r EXCEPT !.page = r.page + 1, !.totalPages = total_pages,
                                 !.combResults = gathered]]
                /\ catalogCache' = catalogCache
           ELSE CombinationReturned(i, gathered)
        /\ response' = NoResponse
        /\ UNCHANGED <<pc, now, cronFired, metaCache, catalogFile, metaFile, remote>>

\* axios.get of a page throws (or the body has no results array): the catch
\* block of fetchMoviesForCombination returns [].
PageFailed(i) ==
    /\ runs[i].pc = "page"
    /\ CombinationReturned(i, <<>>)
    /\ response' = NoResponse
    /\ UNCHANGED <<pc, now, cronFired, metaCache, catalogFile, metaFile, remote>>

\* fetchMovieMetadata returns for results[k] (ok: the response body; not ok:
\* the failure marker) and the record is stored under the movie's id.  With
\* metaCache null the store throws into the catch block of
\* updateCatalogAndMetaCache, which ends the call.
MetaFetched(i, ok) ==
    LET r == runs[i]
        movie == r.results[r.k]
        movieData == FetchMovieMetadataResult(movie.id, ok)
        stored == MetaPut(metaCache, movie.id, now, movieData)
    IN  /\ r.pc = "meta"
        /\ IF metaCache.isNull
           THEN /\ metaCache' = metaCache
                /\ runs' = [runs EXCEPT ![i] = EndedRun("failed")]
                /\ pc' = MainAfterRunEnds(i)
           ELSE /\ metaCache' = stored
                /\ runs' = [runs EXCEPT ![i] =
                       IF r.k < Len(r.results)
                       THEN [r EXCEPT !.k = r.k + 1]
                       ELSE EnterSaveCache(r, catalogCache)]
                /\ pc' = pc
        /\ response' = NoResponse
        /\ UNCHANGED <<now, cronFired, catalogCache, catalogFile, metaFile, remote>>

\* saveCache without its catch block: a failing first write throws into the
\* catch block of updateCatalogAndMetaCache.
CatalogWrittenThrows(i, ok) ==
    LET r == runs[i] IN
    /\ r.pc = "writeCatalog"
    /\ IF ok
       THEN /\ catalogFile' = r.catalogText
            /\ runs' = [runs EXCEPT ![i] =
                   [r EXCEPT !.pc = "writeMeta", !.metaText = Stringify(metaCache)]]
            /\ pc' = pc
       ELSE /\ catalogFile' = catalogFile
            /\ runs' = [runs EXCEPT ![i] = EndedRun("failed")]
            /\ pc' = MainAfterRunEnds(i)
    /\ response' = NoResponse
    /\ UNCHANGED <<now, cronFired, catalogCache, metaCache, metaFile, remote>>

\* The first writeFile of saveCache completes.  Written: the text taken when
\* it was issued is in the file, JSON.stringify(metaCache) is taken and the
\* second writeFile is issued.  Failed: the file is as it was; the catch
\* block logs, the second write is skipped and the run is over.
CatalogWritten(i, ok) ==
    LET r == runs[i] IN
    /\ r.pc = "writeCatalog"
    /\ IF ok
       THEN /\ catalogFile' = r.catalogText
            /\ runs' = [runs EXCEPT ![i] =
                   [r EXCEPT !.pc = "writeMeta", !.metaText = Stringify(metaCache)]]
            /\ pc' = pc
       ELSE /\ catalogFile' = catalogFile
            /\ runs' = [runs EXCEPT ![i] = EndedRun("done")]
            /\ pc' = MainAfterRunEnds(i)
    /\ response' = NoResponse
    /\ UNCHANGED <<now, cronFired, catalogCache, metaCache, metaFile, remote>>

\* The second writeFile of saveCache completes, and the run with it.
MetaWritten(i, ok) ==
    LET r == runs[i] IN
    /\ r.pc = "writeMeta"
    /\ metaFile' = IF ok THEN r.metaText ELSE metaFile
    /\ runs' = [runs EXCEPT ![i] = EndedRun("done")]
    /\ pc' = MainAfterRunEnds(i)
    /\ response' = NoResponse
    /\ UNCHANGED <<now, cronFired, catalogCache, metaCache, catalogFile, remote>>

\* ------------------------------------------------------------------- reads
\* Arguments of catalog requests: no search, an empty one, and three queries.
CatalogArgs ==
    { [search |-> Undefined], [search |-> <<<<>>>>],
      [search |-> <<<<"m","a","n">>>>], [search |-> <<<<"M","A","N">>>>],
      [search |-> <<<<"x">>>>] }

\* Ids of meta requests: "tmdb-1", "tmdb-2", "tmdb-3", "tmdb", "tmdb-9" and
\* "tmdb-constructor".
MetaArgIds ==
    { <<"tmdb", "1">>, <<"tmdb", "2">>, <<"tmdb", "3">>, <<"tmdb">>,
      <<"tmdb", "9">>, <<"tmdb", "constructor">> }

\* A handler that filters the cached array in place: the snapshot keeps only
\* the entries the request selected.
CatalogRequestFilteringInPlace(args) ==
    /\ pc = "serving"
    /\ response' = CatalogHandler(catalogCache, args)
    /\ catalogCache' =
          [catalogCache EXCEPT !.data =
              SelectSeq(catalogCache.data,
                        LAMBDA movie : SearchQuery(args) = <<>>
                                          \/ TitleMatches(movie, SearchQuery(args)))]
    /\ UNCHANGED <<pc, now, cronFired, metaCache, catalogFile, metaFile, runs, remote>>

\* serveHTTP has been called: a catalog request is handled.
CatalogRequest(args) ==
    /\ pc = "serving"
    /\ response' = CatalogHandler(catalogCache, args)
    /\ UNCHANGED <<pc, now, cronFired, catalogCache, metaCache, catalogFile, metaFile, runs, remote>>

\* serveHTTP has been called: a meta request is handled.
MetaRequest(argsId) ==
    /\ pc = "serving"
    /\ response' = MetaHandler(metaCache, argsId)
    /\ UNCHANGED <<pc, now, cronFired, catalogCache, metaCache, catalogFile, metaFile, runs, remote>>

\* One resumption of one refresh run.
RefreshStep ==
    \/ \E i \in 1..Len(runs) : PageFailed(i)
    \/ \E i \in 1..Len(runs), results \in PageResults, total_pages \in TotalPagesValues :
          PageFetched(i, results, total_pages)
    \/ \E i \in 1..Len(runs), ok \in BOOLEAN : MetaFetched(i, ok)
    \/ \E i \in 1..Len(runs), ok \in BOOLEAN : CatalogWritten(i, ok)
    \/ \E i \in 1..Len(runs), ok \in BOOLEAN : MetaWritten(i, ok)

\* One request handled.
ReadStep ==
    \/ \E args \in CatalogArgs : CatalogRequest(args)
    \/ \E argsId \in MetaArgIds : MetaRequest(argsId)

Next ==
    \/ LoadCache
    \/ StartServer
    \/ CronFires(MaxCron)
    \/ RefreshStep
    \/ ReadStep

\* The process from its start, with the daily job firing up to MaxCron times.
Spec == Init /\ [][Next]_vars

\* The process during its first day: the job is scheduled and does not fire.
NextStartup ==
    \/ LoadCache
    \/ StartServer
    \/ RefreshStep
    \/ ReadStep

SpecStartup == InitStartup /\ [][NextStartup]_vars

\* The refresh runs alone, from a start with no files, with the job firing
\* up to MaxCronBurst times and one movie listed.
InitCron ==
    /\ Constructed
    /\ catalogFile = MissingFile(EmptyCatalog)
    /\ metaFile = MissingFile(EmptyMeta)
    /\ remote = {Amen}

NextCron ==
    \/ LoadCache
    \/ StartServer
    \/ CronFires(MaxCronBurst)
    \/ RefreshStep

SpecCron == InitCron /\ [][NextCron]_vars

\* The first day with every awaited call returning or failing in the end:
\* a run that waits for a response or a write is resumed.
SpecStartupFair == SpecStartup /\ WF_vars(RefreshStep)

\* ==================================================================== claims
\* Every id of the snapshot's entries is a key of the metadata table.
IdLookup(catalog, meta) ==
    \A j \in 1..Len(catalog.data) : HasOwn(meta, NumberToString(catalog.data[j].id))

RunsInFlight == {i \in 1..Len(runs) : InFlight(runs[i])}

\* C1 (as claimed): a reader never sees a refresh half done.  While requests
\* are served, no run is between storing its new snapshot and storing the
\* metadata of its entries with that snapshot visible and the metadata table
\* lacking one of its ids.
C1_ReadersSeeWholeRefresh ==
    pc = "serving" =>
        \A i \in 1..Len(runs) :
            (runs[i].pc = "meta" /\ catalogCache.data = runs[i].results)
                => IdLookup(catalogCache, metaCache)

\* C2 (as claimed): at most one refresh run is in flight.
C2_AtMostOneRunInFlight == Cardinality(RunsInFlight) <= 1

\* C3 (as claimed): triggers that fire during a run are coalesced behind it.
\* While the first run is in progress and the job has fired twice, no
\* further run has started (the one additional run starts after the first
\* has completed).
C3_TriggersCoalesce ==
    (runs # <<>> /\ InFlight(runs[1]) /\ cronFired = 2) => Len(runs) = 1

\* C4 (as claimed): when the fetch of a page behind page 1 fails,
\* fetchMoviesForCombination returns the valid entries of the pages fetched
\* before it: fetchMovies appends exactly those to its list.
C4_PartialPagesReturned ==
    [][\A i \in 1..Len(runs) :
          (PageFailed(i) /\ runs[i].page > 1)
              => runs'[i].allResults = runs[i].allResults \o runs[i].combResults]_vars

\* What loadCache made of the two files the process started on (they are
\* written by saveCache only, which a run that is abandoned never reaches).
LoadedCatalog == IF Readable(catalogFile) THEN JsonParse(catalogFile) ELSE EmptyCatalog

LoadedMeta == IF Readable(metaFile) THEN JsonParse(metaFile) ELSE EmptyMeta

\* C5 (as claimed): a run that an exception ends leaves the cache untouched.
\* During the first day the only run is the startup run, which began on the
\* loaded pair: once it has been abandoned the two caches are that pair.
C5_AbandonedRunLeavesCache ==
    \A i \in 1..Len(runs) :
        runs[i].pc = "failed" => (catalogCache = LoadedCatalog /\ metaCache = LoadedMeta)

EmptySearch == [search |-> <<<<>>>>]

\* C6 (as claimed): a failing fetch never empties a catalog that had
\* entries.  A step in which a page fetch fails leaves searchCatalog("")
\* non-empty if it was non-empty.
C6_NoRegressionToEmpty ==
    [][((\E i \in 1..Len(runs) : PageFailed(i))
          /\ CatalogHandler(catalogCache, EmptySearch).metas # <<>>)
        => CatalogHandler(catalogCache', EmptySearch).metas # <<>>]_vars

ReleaseDay(movie) == DateValue(movie.release_date)

SortedDescending(entries) ==
    \A a, b \in 1..Len(entries) : a < b => ReleaseDay(entries[a]) >= ReleaseDay(entries[b])

\* entries is fetched rearranged, entries of one release date in the order
\* they have in fetched.
StableArrangement(entries, fetched) ==
    /\ Len(entries) = Len(fetched)
    /\ \E p \in Permutations(1..Len(fetched)) :
          /\ \A j \in 1..Len(fetched) : entries[j] = fetched[p[j]]
          /\ \A a, b \in 1..Len(fetched) :
                (a < b /\ ReleaseDay(entries[a]) = ReleaseDay(entries[b])) => p[a] < p[b]

\* C7: the snapshot is sorted by release date, newest first, stable on ties.
\* The entries of catalogCache are always in descending order of release
\* date, and the step in which a run stores its snapshot stores the entries
\* it fetched, those of one date in the order of fetching.
C7_SortedSnapshot ==
    /\ [](~catalogCache.isNull => SortedDescending(catalogCache.data))
    /\ [][\A i \in 1..Len(runs) :
             (runs[i].pc = "page" /\ runs'[i].pc # "page")
                 => /\ catalogCache'.data = runs'[i].results
                    /\ StableArrangement(catalogCache'.data, runs'[i].allResults)]_vars

\* C7's case: a run has fetched an older movie before a newer one and has
\* stored them newest first.
C7_Witness ==
    \E i \in 1..Len(runs) :
        /\ runs[i].pc = "meta"
        /\ runs[i].allResults = <<Amen, IronMan>>
        /\ catalogCache.data = <<IronMan, Amen>>

\* C8 (as claimed): when a run completes, every id of the current snapshot
\* is a key of the metadata table.
C8_IdLookupAtCompletion ==
    [][\A i \in 1..Len(runs) :
          (runs[i].pc # "done" /\ runs'[i].pc = "done")
              => IdLookup(catalogCache', metaCache')]_vars

AbsentResponse == [kind |-> "meta", metas |-> <<>>, meta |-> <<>>]

\* The record stored for the id a request names, if any.
StoredRecord(argsId) ==
    IF Len(argsId) >= 2 /\ HasOwn(metaCache, argsId[2])
    THEN metaCache.entries[argsId[2]] ELSE <<>>

IsFailureMarker(record) == record.data.error # Undefined

\* C9 (as claimed): while requests are served from a metadata table, the
\* meta handler answers { meta: null } for an id whose record is a failure
\* marker and for an id with no record alike, and answers with a view
\* exactly when a record that is no failure marker is stored.
C9_FailureMarkerIsAbsence ==
    (pc = "serving" /\ ~metaCache.isNull) =>
        \A argsId \in MetaArgIds :
            LET stored == StoredRecord(argsId)
                answer == MetaHandler(metaCache, argsId)
            IN  IF stored = <<>> \/ IsFailureMarker(stored[1])
                THEN answer = AbsentResponse
                ELSE answer.kind = "meta" /\ answer.meta # <<>>

\* The part of C9 about stored records, which the handler does satisfy
\* (kept as a check on the reading of the counterexample).
C9_StoredRecordsAnswered ==
    (pc = "serving" /\ ~metaCache.isNull) =>
        \A argsId \in MetaArgIds :
            LET stored == StoredRecord(argsId)
                answer == MetaHandler(metaCache, argsId)
            IN  stored # <<>> =>
                    IF IsFailureMarker(stored[1])
                    THEN answer = AbsentResponse
                    ELSE answer.kind = "meta" /\ answer.meta # <<>>

\* The entries of the snapshot a handler reads (none before any is stored).
CachedEntries == IF catalogCache.hasData THEN catalogCache.data ELSE <<>>

\* The capital of a small letter.
Capital(low) ==
    CASE low = "a" -> "A" [] low = "d" -> "D" [] low = "e" -> "E" [] low = "i" -> "I"
      [] low = "m" -> "M" [] low = "n" -> "N" [] low = "o" -> "O" [] low = "r" -> "R"
      [] low = "x" -> "X" [] OTHER -> low

\* Two characters are the same letter, whatever their case.
SameLetter(c, d) ==
    \/ c = d
    \/ \E low \in {"a", "d", "e", "i", "m", "n", "o", "r", "x"} :
          c \in {low, Capital(low)} /\ d \in {low, Capital(low)}

\* title contains q, case ignored.
ContainsIgnoringCase(title, q) ==
    \E start \in 1..(Len(title) - Len(q) + 1) :
        \A k \in 0..(Len(q) - 1) : SameLetter(title[start + k], q[k + 1])

\* The query a request carries: none and "" are both the empty query.
QueryOf(args) == IF args.search = <<>> THEN <<>> ELSE args.search[1]

\* The positions of the cached entries a request selects.
Selected(args) ==
    {j \in 1..Len(CachedEntries) :
        QueryOf(args) = <<>> \/ ContainsIgnoringCase(CachedEntries[j].title, QueryOf(args))}

\* answer lists one summary for each selected entry, in snapshot order.
ListsSelected(answer, args) ==
    /\ answer.kind = "metas"
    /\ Len(answer.metas) = Cardinality(Selected(args))
    /\ \A n \in 1..Len(answer.metas) :
          \E j \in Selected(args) :
              /\ Cardinality({x \in Selected(args) : x <= j}) = n
              /\ answer.metas[n].id = <<"tmdb", NumberToString(CachedEntries[j].id)>>
              /\ answer.metas[n].name = CachedEntries[j].title

\* C10: the catalog handler returns, for an empty or missing query, one
\* summary per cached entry in snapshot order; for a query q, the summaries
\* of exactly the entries whose title contains q case-insensitively, in
\* snapshot order; and an empty list, not an error, when nothing is cached.
\* A response to a catalog request that has been given is one of these.
C10_SearchResultSet ==
    pc = "serving" =>
        /\ \A args \in CatalogArgs : ListsSelected(CatalogHandler(catalogCache, args), args)
        /\ CachedEntries = <<>> =>
              \A args \in CatalogArgs : CatalogHandler(catalogCache, args).metas = <<>>
        /\ response.kind = "metas" =>
              \E args \in CatalogArgs : ListsSelected(response, args)

\* C10's case: with Iron Man and Mad Max cached, a search has returned the
\* summary of Iron Man alone.
C10_Witness ==
    /\ pc = "serving"
    /\ catalogCache.data = <<IronMan, MadMax>>
    /\ response.kind = "metas"
    /\ Len(response.metas) = 1
    /\ response.metas[1].name = IronMan.title

\* A file that holds a serialized structure: it can be read and parsed, and
\* what it parses to is an object.
HoldsStructure(file) == Readable(file) /\ ~JsonParse(file).isNull

\* C11 (as claimed): a cache file that is missing, unreadable or holds no
\* serialized structure leaves its in-memory structure empty after loadCache;
\* startServer then does not fail, and with no catalog loaded it starts the
\* immediate refresh run.
C11_BootstrapFromNothing ==
    [][/\ LoadCache =>
            /\ ~HoldsStructure(catalogFile) => catalogCache' = EmptyCatalog
            /\ ~HoldsStructure(metaFile) => metaCache' = EmptyMeta
       /\ (StartServer /\ (~HoldsStructure(catalogFile) \/ ~HoldsStructure(metaFile)))
            => pc' # "crashed"
       /\ (StartServer /\ ~HoldsStructure(catalogFile))
            => (pc' = "refreshing" /\ runs' = <<NewRun>>)]_vars

\* A writeFile of saveCache fails in run i.
WriteFails(i) == CatalogWritten(i, FALSE) \/ MetaWritten(i, FALSE)

\* C12: a failing write of saveCache does not touch what is served.  The run
\* completes normally and both caches stay as they are: the metadata table
\* has a record for every entry of the run, and the snapshot is the run's
\* when no other run has started.  Once that run is over, the two caches,
\* from which every read is answered, stay until another run stores.
C12_StorageFailureKeepsServedState ==
    [][/\ \A i \in 1..Len(runs) :
            WriteFails(i) =>
                /\ runs'[i].pc = "done"
                /\ catalogCache' = catalogCache
                /\ metaCache' = metaCache
                /\ \A j \in 1..Len(runs[i].results) :
                        HasOwn(metaCache', NumberToString(runs[i].results[j].id))
                /\ Len(runs) = 1 => catalogCache'.data = runs[i].results
       /\ (Len(runs) = 1 /\ runs[1].pc = "done")
            => (catalogCache' = catalogCache /\ metaCache' = metaCache)]_vars

\* The run stored a snapshot, its first write failed, and a request is
\* answered from the snapshot.
C12_Witness ==
    /\ pc = "serving"
    /\ Len(runs) = 1 /\ runs[1].pc = "done"
    /\ catalogFile.kind = "missing"
    /\ catalogCache.data = <<IronMan, Amen>>
    /\ response.kind = "metas"
    /\ Len(response.metas) = 2

\* The loaded snapshot carries a timestamp that is at most 24 hours old.
LoadedSnapshotIsFresh == catalogCache.timestamp # 0 /\ now - catalogCache.timestamp <= DAY_MS

\* C13 (as claimed): after loadCache, startServer starts exactly one refresh
\* run when the loaded snapshot has no timestamp or is older than 24 hours,
\* and starts none, going on to serve, when its age is at most 24 hours.
C13_StartupStalenessRule ==
    [][StartServer =>
          IF LoadedSnapshotIsFresh
          THEN runs' = <<>> /\ pc' = "serving"
          ELSE runs' = <<NewRun>> /\ pc' = "refreshing"]_vars

\* The key under which the metadata loop of run r stores its current entry.
CurrentKey(r) == NumberToString(r.results[r.k].id)

\* C14 (as claimed): the metadata loop walks the new snapshot from its first
\* entry to its last, one request per entry.  Whenever the request for the
\* current entry returns, a record is stored under its id (a failure marker
\* when the request failed) and the loop goes on with the next entry, or to
\* saveCache behind the last one.
C14_PerItemFailureContainment ==
    [][\A i \in 1..Len(runs) :
          /\ (runs[i].pc = "page" /\ runs'[i].pc = "meta")
                => (runs'[i].k = 1 /\ runs'[i].results = catalogCache'.data)
          /\ (runs[i].pc = "meta" /\ runs'[i] # runs[i])
                => /\ HasOwn(metaCache', CurrentKey(runs[i]))
                   /\ metaCache'.entries[CurrentKey(runs[i])][1].timestamp = now
                   /\ MetaFetched(i, FALSE)
                        => IsFailureMarker(metaCache'.entries[CurrentKey(runs[i])][1])
                   /\ IF runs[i].k < Len(runs[i].results)
                      THEN /\ runs'[i].pc = "meta"
                           /\ runs'[i].k = runs[i].k + 1
                           /\ runs'[i].results = runs[i].results
                      ELSE runs'[i].pc = "writeCatalog"]_vars

\* The keys of the metadata table whose record a step changes.
ChangedKeys == {key \in MetaKeys : metaCache'.entries[key] # metaCache.entries[key]}

\* The keys of the entries the runs in their metadata loop are storing.
SnapshotKeys ==
    UNION {{NumberToString(runs[i].results[j].id) : j \in 1..Len(runs[i].results)} :
              i \in {n \in 1..Len(runs) : runs[n].pc = "meta"}}

\* C15: once the files are loaded the metadata table only grows.  No step
\* removes a key, and the only records a step adds or overwrites are those
\* of entries of the snapshot a run is storing; records of ids that are in
\* no snapshot any more stay as they are.
C15_MetaTableOnlyGrows ==
    [][pc # "boot" =>
          /\ KeysOf(metaCache) \subseteq KeysOf(metaCache')
          /\ ChangedKeys \subseteq SnapshotKeys
          /\ metaCache'.isNull = metaCache.isNull]_vars

\* The record of a movie the remote API no longer lists in any snapshot is
\* still in the table after a run that stored another movie.
C15_Witness ==
    /\ runs # <<>>
    /\ \A i \in 1..Len(runs) : runs[i].pc = "done"
    /\ catalogCache.data = <<IronMan>>
    /\ KeysOf(metaCache) = {"1", "3"}
    /\ metaCache.entries["3"][1].timestamp = T0 - DAY_MS

Min(a, b) == IF a <= b THEN a ELSE b

Max(a, b) == IF a >= b THEN a ELSE b

\* fetchMoviesForCombination of run i returns to fetchMovies in this step.
CombinationEnds(i) == runs'[i].pc # "page" \/ runs'[i].comb # runs[i].comb

\* Run i goes on to request the next page of the same combination.
NextPageRequested(i) ==
    /\ runs'[i].pc = "page"
    /\ runs'[i].comb = runs[i].comb
    /\ runs'[i].page = runs[i].page + 1

\* C16 (as claimed): with no fetch failure the pages of a combination are
\* requested consecutively, a further page only within the cap and within
\* the total_pages just reported, and when the combination returns the
\* number of requests issued (the number of the last page requested) is
\* exactly min(cap, total_pages), also when that is 0.
C16_PaginationBounds ==
    [][\A i \in 1..Len(runs), results \in PageResults, total_pages \in TotalPagesValues :
          (PageFetched(i, results, total_pages) /\ ~PageFailed(i)) =>
              /\ NextPageRequested(i)
                    => (runs'[i].page <= NUM_PAGES /\ runs'[i].page <= total_pages)
              /\ CombinationEnds(i) => runs[i].page = Min(NUM_PAGES, total_pages)]_vars

\* C16 (amended): page 1 is always requested; behind a fetched page p the
\* page p + 1 is requested exactly when p + 1 is within the cap and within
\* the total_pages reported with page p, and otherwise the combination
\* returns.  It returns after at least one and at most max(1, cap) requests,
\* and after exactly max(1, min(cap, total_pages)) when the last two
\* responses (or the only one) report the same total_pages.
C16_PaginationBoundsFromPageOne ==
    /\ [](\A i \in 1..Len(runs) : runs[i].pc = "page" => runs[i].page >= 1)
    /\ [][\A i \in 1..Len(runs), results \in PageResults,
             total_pages \in TotalPagesValues :
             PageFetched(i, results, total_pages) =>
                 /\ NextPageRequested(i) \/ CombinationEnds(i)
                 /\ NextPageRequested(i)
                       <=> (runs[i].page + 1 <= NUM_PAGES /\ runs[i].page + 1 <= total_pages)
                 /\ CombinationEnds(i) =>
                       /\ runs[i].page <= Max(1, NUM_PAGES)
                       /\ (runs[i].page = 1 \/ runs[i].totalPages = total_pages)
                             => runs[i].page = Max(1, Min(NUM_PAGES, total_pages))]_vars

\* The remote API reports more pages than the cap allows, and the second
\* page of a combination, the last the cap admits, has been requested.
C16_Witness ==
    \E i \in 1..Len(runs) :
        /\ runs[i].pc = "page"
        /\ runs[i].page = NUM_PAGES
        /\ runs[i].totalPages > NUM_PAGES
        /\ runs[i].combResults # <<>>

\* How often x occurs in the list s.
Occurrences(s, x) == Cardinality({j \in 1..Len(s) : s[j] = x})

\* Two lists hold the same entries the same number of times.
SameMultiset(s, t) ==
    /\ Len(s) = Len(t)
    /\ \A j \in 1..Len(s) : Occurrences(s, s[j]) = Occurrences(t, s[j])

\* Run i stores its snapshot in this step.
SnapshotStored(i) == runs[i].pc = "page" /\ runs'[i].pc \in {"meta", "writeCatalog"}

RequestHandled == response'.kind # NoResponse.kind

\* C18: handling a request changes nothing but the answer.  A step that
\* handles a catalog or a meta request leaves the snapshot, the metadata
\* table and both files as they are, and starts or advances no refresh run,
\* so that no request goes out to the remote API.
C18_ReadPathSideEffectFree ==
    [][RequestHandled =>
          /\ catalogCache' = catalogCache
          /\ metaCache' = metaCache
          /\ catalogFile' = catalogFile
          /\ metaFile' = metaFile
          /\ runs' = runs]_vars

\* A search that selects one of two cached entries has been answered while
\* a refresh run is in flight.
C18_Witness ==
    /\ pc = "serving"
    /\ RunsInFlight # {}
    /\ Len(catalogCache.data) = 2
    /\ response.kind = "metas"
    /\ Len(response.metas) = 1

\* saveCache of run i returns in this step.
SaveCacheReturns(i) == runs[i].pc \in {"writeCatalog", "writeMeta"} /\ runs'[i].pc = "done"

\* The id-lookup invariant of the persisted pair: every id of the catalog
\* the one file holds has a record in the table the other file holds.
PersistedIdLookup(cFile, mFile) ==
    HoldsStructure(cFile) =>
        \A j \in 1..Len(JsonParse(cFile).data) :
            /\ HoldsStructure(mFile)
            /\ HasOwn(JsonParse(mFile), NumberToString(JsonParse(cFile).data[j].id))

\* C19 (as claimed): whenever saveCache has returned, the two files together
\* satisfy the id-lookup invariant, and when both writes succeeded they hold
\* the in-memory pair as it is when saveCache returns.
C19_DurablePairConsistency ==
    [][\A i \in 1..Len(runs) :
          SaveCacheReturns(i) =>
              /\ PersistedIdLookup(catalogFile', metaFile')
              /\ MetaWritten(i, TRUE)
                    => /\ catalogFile' = Stringify(catalogCache')
                       /\ metaFile' = Stringify(metaCache')]_vars

\* C20 (as claimed): every started run finishes, within the request bounds.
\* A run never requests a page beyond max(1, cap) of a combination nor a
\* combination beyond the list (so at most |combinations| * max(1, cap)
\* page requests); it leaves the metadata loop only behind the request for
\* the last entry of its snapshot (one request per entry); and when every
\* call returns or fails, a run that has started is over in the end.
C20_RefreshTermination ==
    /\ [](\A i \in 1..Len(runs) :
            runs[i].pc = "page" =>
                /\ runs[i].page \in 1..Max(1, NUM_PAGES)
                /\ runs[i].comb \in 1..Len(GENRE_COMBINATIONS))
    /\ [][\A i \in 1..Len(runs) :
            (runs[i].pc = "meta" /\ runs'[i].pc # "meta")
                => runs[i].k = Len(runs[i].results)]_vars
    /\ (runs # <<>>) ~> (runs # <<>> /\ RunsInFlight = {})

====
